---- MODULE Spec2Model ----
(***************************************************************************)
(* Model of the NetBox integration pack:                                   *)
(*   - the HTTP action wrapper (actions/run.py, actions/lib/action.py),    *)
(*     specification SpecHTTP;                                             *)
(*   - the action generator (bin/generate.py), specification SpecGen.      *)
(* The two scripts share no state; each specification leaves the other     *)
(* script's variables alone.                                               *)
(***************************************************************************)
EXTENDS Integers, Sequences, FiniteSets, TLC

VARIABLES
    config,     \* NetboxBaseAction.config: use_https, hostname, api_token, ssl_verify
    hpc,        \* position of the wrapper: "idle" or "returned"
    inv,        \* arguments of the current invocation of NetboxHTTPAction.run
    resp,       \* what NetBox answered to the request of this invocation
    made,       \* calls of make_request by this invocation: (endpoint_uri, http_action, kwargs)
    sent,       \* outbound HTTP requests issued by this invocation
    kv_calls,   \* Client.keys.update calls of this invocation
    kvstore,    \* the platform key-value store: key name -> stored pair
    ret,        \* how the invocation ended: a returned tuple or a raised exception
    gpc,        \* position of generate.run: "classify", "render", "done"
    doc,        \* the (path, verb) entries of spec['paths'] iterated so far, with their outcome
    cur,        \* the key of spec['paths'] the outer loop is at
    path,       \* the loop variable `path` (rewritten in place by the inner loop)
    path_parts, \* path_parts of the current path
    actions,    \* the mapping action name -> action
    deferred_detail_gets, \* the deferred detail GET action names
    printed,    \* the warnings printed
    files,      \* the files in the actions directory
    written,    \* the files the render loop wrote
    gret        \* the value run returned

hvars == <<config, hpc, inv, resp, made, sent, kv_calls, kvstore, ret>>

gvars == <<gpc, doc, cur, path, path_parts, actions, deferred_detail_gets, printed,
           files, written, gret>>

(***************************************************************************)
(* Bounds of the model.                                                    *)
(***************************************************************************)
MaxId == 1

MaxPairs == 2

(***************************************************************************)
(* Python values.  An optional value is a tuple: None is the empty tuple,  *)
(* a value x is <<x>>.  A keyword argument that was not passed at all is   *)
(* not in the domain of kwargs.                                            *)
(***************************************************************************)
None == <<>>

Some(x) == <<x>>

Absent == <<0, 0>>

EmptyKwargs == [k \in {} |-> None]

\* one optional keyword argument: nothing when it was not passed
Kw(k, choice) == IF choice = Absent THEN EmptyKwargs ELSE k :> choice

\* dict.pop(k) on a dict that holds k
Pop(kwargs, k) == [x \in DOMAIN kwargs \ {k} |-> kwargs[x]]

\* bool(kwargs.get(k, False)) for an integer argument
TruthyInt(kwargs, k) == k \in DOMAIN kwargs /\ kwargs[k] # None /\ kwargs[k][1] # 0

\* bool(kwargs.get(k)) for a list argument
TruthyList(kwargs, k) == k \in DOMAIN kwargs /\ kwargs[k] # None /\ Len(kwargs[k][1]) > 0

\* bool(kwargs.get(k)) for a string argument
TruthyStr(kwargs, k) == k \in DOMAIN kwargs /\ kwargs[k] # None /\ kwargs[k][1] # ""

\* kwargs.get(k, False) is True
IsTrue(kwargs, k) == k \in DOMAIN kwargs /\ kwargs[k] # None /\ kwargs[k][1] = TRUE

\* {key: value for key, value in kwargs.items() if value is not None}
StripNone(kwargs) == [x \in {k \in DOMAIN kwargs : kwargs[k] # None} |-> kwargs[x]]

(***************************************************************************)
(* Conversions.                                                            *)
(***************************************************************************)
Ids == 0..MaxId

\* str(id) of an integer id
Str(i) == CASE i = 0 -> "0" [] i = 1 -> "1" [] i = 2 -> "2" [] i = 3 -> "3" [] OTHER -> "n"

\* ",".join(list) for the lists of the model
JoinComma(l) ==
    CASE l = <<>> -> ""
      [] l = <<"1", "2">> -> "1,2"
      [] l = <<"a", "b">> -> "a,b"
      [] OTHER -> "joined"

\* Response.json(): the body text parsed to a value (named by its Python repr)
JsonLoads(text) ==
    CASE text = "{\"id\":7}" -> "dict(id=7)"
      [] text = "{ \"id\": 7 }" -> "dict(id=7)"
      [] text = "{\"detail\":\"Not found.\"}" -> "dict(detail='Not found.')"
      [] OTHER -> "list()"

\* json.dumps(value): the canonical text of a value
JsonDumps(value) ==
    CASE value = "dict(id=7)" -> "{\"id\": 7}"
      [] value = "dict(detail='Not found.')" -> "{\"detail\": \"Not found.\"}"
      [] OTHER -> "[]"

\* "Result stored in st2 key {}".format(key_name)
StoredMessage(key_name) ==
    CASE key_name = "k1" -> "Result stored in st2 key k1"
      [] key_name = "k2" -> "Result stored in st2 key k2"
      [] OTHER -> "Result stored in st2 key ?"

MustMessage == "save_in_key_store_key_name MUST be used with save_in_key_store!"

\* the value of return_result: None, a parsed JSON value or a message
PyNone == [t |-> "none", v |-> ""]

PyJson(value) == [t |-> "json", v |-> value]

PyStr(s) == [t |-> "str", v |-> s]

(***************************************************************************)
(* The inputs of an invocation.                                            *)
(***************************************************************************)
Verbs == {"get", "post", "put", "patch", "delete"}

\* http_verb is a plain string argument of run: one value outside the verbs
\* make_request dispatches on
AnyVerbs == Verbs \cup {"options"}

Endpoints == {<<"/dcim/sites/">>}

KeyNames == {"k1", "k2"}

BodyTexts == {"{\"id\":7}", "[]", "{\"detail\":\"Not found.\"}"}

IdChoices == {Absent, None} \cup {Some(i) : i \in Ids}

SaveChoices == {Absent, Some(FALSE), Some(TRUE)}

KeyNameChoices == {Absent, Some("")} \cup {Some(k) : k \in KeyNames}

TagsChoices == {Absent, Some(<<"a", "b">>)}

IdInChoices == {Absent, Some(<<"1", "2">>)}

\* the keyword arguments the platform passes: the key store arguments come
\* together (save_in_key_store_ttl has a value whenever save_in_key_store is
\* passed)
KwargsSet ==
    { Kw("id", i) @@ Kw("save_in_key_store", s) @@ Kw("save_in_key_store_key_name", n)
        @@ Kw("save_in_key_store_ttl", IF s = Absent THEN Absent ELSE Some(60))
        @@ Kw("tags", t) @@ Kw("id__in", ii) :
        i \in IdChoices, s \in SaveChoices, n \in KeyNameChoices,
        t \in TagsChoices, ii \in IdInChoices }

\* the generated delete actions declare id required (generate.py, the
\* delete/put/patch rule), so the platform never calls one without an id
Invocations ==
    { a \in [endpoint_uri : Endpoints, http_verb : AnyVerbs,
             get_detail_route_eligible : BOOLEAN, kwargs : KwargsSet] :
        a.http_verb = "delete" =>
            ("id" \in DOMAIN a.kwargs /\ a.kwargs["id"] # None) }

Responses == [ok : BOOLEAN, body : BodyTexts]

NoInvocation ==
    [endpoint_uri |-> <<>>, http_verb |-> "", get_detail_route_eligible |-> FALSE,
     kwargs |-> EmptyKwargs]

NoResponse == [ok |-> FALSE, body |-> ""]

NoReturn == [kind |-> "none", status |-> FALSE, raw |-> PyNone, exc |-> ""]

Return(status, raw) == [kind |-> "return", status |-> status, raw |-> raw, exc |-> ""]

Raise(exc) == [kind |-> "raise", status |-> FALSE, raw |-> PyNone, exc |-> exc]

(***************************************************************************)
(* NetboxBaseAction.make_request                                           *)
(***************************************************************************)
\* url = scheme + hostname + "/api" + endpoint_uri
Url(cfg, endpoint_uri) ==
    <<IF cfg.use_https THEN "https://" ELSE "http://", cfg.hostname, "/api">> \o endpoint_uri

Headers(cfg) ==
    [Authorization |-> <<"Token ", cfg.api_token>>, Accept |-> "application/json",
     ContentType |-> "application/json"]

\* transform `id__in` if present
JoinIdIn(kwargs) ==
    IF TruthyList(kwargs, "id__in")
    THEN [kwargs EXCEPT !["id__in"] = Some(JoinComma(kwargs["id__in"][1]))]
    ELSE kwargs

\* transform `tags` if present
JoinTags(kwargs) ==
    IF TruthyList(kwargs, "tags")
    THEN [kwargs EXCEPT !["tags"] = Some(JoinComma(kwargs["tags"][1]))]
    ELSE kwargs

\* the kwargs as make_request hands them to the HTTP client
RequestKwargs(http_action, kwargs) ==
    IF http_action # "get" THEN StripNone(JoinTags(JoinIdIn(kwargs)))
    ELSE JoinTags(JoinIdIn(kwargs))

\* the requests.<verb>(...) call: get sends the kwargs as query parameters,
\* post/put/patch as the JSON body, delete sends neither
HttpCall(cfg, endpoint_uri, http_action, kwargs) ==
    [method |-> http_action,
     url |-> Url(cfg, endpoint_uri),
     verify |-> cfg.ssl_verify,
     headers |-> Headers(cfg),
     carries |-> CASE http_action = "get" -> "params"
                   [] http_action \in {"post", "put", "patch"} -> "json"
                   [] OTHER -> "nothing",
     args |-> IF http_action = "delete" THEN EmptyKwargs
              ELSE RequestKwargs(http_action, kwargs)]

\* a dispatch that lost its delete branch
RequestsIssuedNoDelete(cfg, endpoint_uri, http_action, kwargs) ==
    IF http_action \in Verbs \ {"delete"}
    THEN <<HttpCall(cfg, endpoint_uri, http_action, kwargs)>>
    ELSE <<>>

\* the requests make_request issues: one for each verb it dispatches on, none
\* for any other verb
RequestsIssued(cfg, endpoint_uri, http_action, kwargs) ==
    IF http_action \in Verbs
    THEN <<HttpCall(cfg, endpoint_uri, http_action, kwargs)>>
    ELSE <<>>

\* how make_request ends: it returns the response r; r is unbound when no
\* branch of the dispatch ran; the delete branch reads kwargs["id"] for its log line
MakeRequestEnd(http_action, kwargs) ==
    CASE http_action \notin Verbs -> "UnboundLocalError"
      [] http_action = "delete" /\ "id" \notin DOMAIN RequestKwargs(http_action, kwargs)
            -> "KeyError"
      [] OTHER -> "returns"

(***************************************************************************)
(* NetboxHTTPAction.run                                                    *)
(***************************************************************************)
\* whether run converts the call to the detail route
UsesDetailRoute(a) ==
    a.http_verb = "get" /\ TruthyInt(a.kwargs, "id") /\ a.get_detail_route_eligible

\* the (endpoint_uri, http_action, kwargs) run passes to make_request
MakeRequestArgs(a) ==
    IF UsesDetailRoute(a)
    THEN [endpoint_uri |-> a.endpoint_uri \o <<Str(a.kwargs["id"][1]), "/">>,
          http_action |-> a.http_verb,
          kwargs |-> Pop(a.kwargs, "id")]
    ELSE [endpoint_uri |-> a.endpoint_uri, http_action |-> a.http_verb,
          kwargs |-> a.kwargs]

\* a key store branch taken whatever the verb
IsSuccessfulAnyVerb(a, r) == r.ok = TRUE

\* whether run takes the key store branch (the outer if of the result handling)
IsSuccessfulGet(a, r) == r.ok = TRUE /\ a.http_verb = "get"

\* the key name run stores under, when it stores
StoresUnder(a, r) ==
    IF IsSuccessfulGet(a, r) /\ IsTrue(MakeRequestArgs(a).kwargs, "save_in_key_store")
          /\ TruthyStr(MakeRequestArgs(a).kwargs, "save_in_key_store_key_name")
    THEN Some(MakeRequestArgs(a).kwargs["save_in_key_store_key_name"][1])
    ELSE None

\* the KeyValuePair run hands to client.keys.update
KeyValuePair(a, r) ==
    [name |-> StoresUnder(a, r)[1],
     value |-> JsonDumps(JsonLoads(r.body)),
     ttl |-> MakeRequestArgs(a).kwargs["save_in_key_store_ttl"][1]]

\* a result handling whose else belongs to the inner if: the body is read for
\* a plain successful GET only
RunReturnElseOfInnerIf(a, r) ==
    IF IsSuccessfulGet(a, r)
    THEN IF IsTrue(MakeRequestArgs(a).kwargs, "save_in_key_store")
         THEN IF StoresUnder(a, r) = None
              THEN Return(FALSE, PyStr(MustMessage))
              ELSE Return(TRUE, PyStr(StoredMessage(StoresUnder(a, r)[1])))
         ELSE Return(r.ok, PyJson(JsonLoads(r.body)))
    ELSE Return(r.ok, PyNone)

\* (return_status, {"raw": return_result})
RunReturn(a, r) ==
    IF IsSuccessfulGet(a, r)
    THEN IF IsTrue(MakeRequestArgs(a).kwargs, "save_in_key_store")
         THEN IF StoresUnder(a, r) = None
              THEN Return(FALSE, PyStr(MustMessage))
              ELSE Return(TRUE, PyStr(StoredMessage(StoresUnder(a, r)[1])))
         ELSE Return(r.ok, PyNone)
    ELSE Return(r.ok, PyJson(JsonLoads(r.body)))


(***************************************************************************)
(* bin/generate.py: the OpenAPI document.                                  *)
(* A path is its segments (each preceded by "/") and whether it ends in a  *)
(* slash: "/dcim/sites/{id}/" is <<"dcim", "sites", "{id}">> with a slash. *)
(***************************************************************************)
P(segs, slash) == [segs |-> segs, slash |-> slash]

PathSet ==
    { P(<<"dcim", "sites">>, TRUE),
      P(<<"dcim", "sites", "{id}">>, TRUE),
      P(<<"dcim", "sites", "{id}">>, FALSE),
      P(<<"ipam", "prefixes", "{id}", "available-ips">>, TRUE),
      P(<<"ipam", "prefixes", "available-ips", "{id}">>, TRUE),
      P(<<"ipam", "prefixes", "{id}", "available-prefixes">>, TRUE),
      P(<<"secrets", "get-session-key">>, TRUE),
      P(<<"secrets", "generate-rsa-key-pair">>, TRUE) }

NoPath == P(<<>>, FALSE)

\* a parameter of an action or of an operation: name, type, required, description
Param(name, type, required, description) ==
    [name |-> name, type |-> type, required |-> required, description |-> description]

\* a property of a schema of spec['definitions']
Prop(name, readOnly, ref, choice, type, title) ==
    [name |-> name, readOnly |-> readOnly, ref |-> ref, choice |-> choice,
     type |-> type, title |-> title]

\* spec['definitions']
Definitions ==
    [Site |->
        [title |-> "Site", required |-> {"name"},
         properties |-> << Prop("id", TRUE, "", FALSE, "integer", "Id"),
                           Prop("name", FALSE, "", FALSE, "string", "Name"),
                           Prop("status", FALSE, "", TRUE, "object", "Status"),
                           Prop("asn", FALSE, "", FALSE, "number", "") >>],
     IPAddress |->
        [title |-> "IPAddress", required |-> {"address"},
         properties |-> << Prop("id", TRUE, "", FALSE, "integer", "Id"),
                           Prop("address", FALSE, "", FALSE, "string", "Address"),
                           Prop("vrf", FALSE, "Site", FALSE, "", "") >>],
     Prefix |->
        [title |-> "Prefix", required |-> {"prefix"},
         properties |-> << Prop("id", TRUE, "", FALSE, "integer", "Id"),
                           Prop("prefix", FALSE, "", FALSE, "string", "Prefix"),
                           Prop("site_id", FALSE, "", FALSE, "string", "") >>]]

\* the query parameters of a list operation
QueryParameters ==
    << Param("id__in", "string", FALSE, <<"Multiple values may be separated by commas.">>),
       Param("site_id", "string", FALSE, <<"">>),
       Param("limit", "number", FALSE, <<"Number of results to return per page.">>) >>

\* verb_data: description, whether operationId ends in "_list", and the
\* parameters: none, query parameters, or one body parameter with a schema $ref
VerbData(description, is_list, parameters, ref) ==
    [description |-> description, is_list |-> is_list, parameters |-> parameters,
     ref |-> ref]

\* the schema a body parameter of an operation of this path refers to
BodyRef(p) == IF p.segs[1] = "ipam" THEN "Prefix" ELSE "Site"

\* whether the path ends in the path parameter, with or without a slash
EndsInParameter(p) == p.segs[Len(p.segs)] = "{id}"

\* the get operations a document may hold under a path: operationId ends in
\* "_list" only for a path that does not end in a path parameter
GetEntries(p) ==
    { <<"get", VerbData("Read.", FALSE, <<>>, "")>> }
    \cup (IF EndsInParameter(p) THEN {}
          ELSE { <<"get", VerbData("", TRUE, QueryParameters, "")>> })

\* the operations a document may hold under a path: (verb, verb_data)
VerbEntries(p) ==
    GetEntries(p) \cup
    {
      <<"post", VerbData("", FALSE, <<>>, BodyRef(p))>>,
      <<"put", VerbData("Update.", FALSE, <<>>, BodyRef(p))>>,
      <<"patch", VerbData("", FALSE, <<>>, BodyRef(p))>>,
      <<"delete", VerbData("", FALSE, <<>>, "")>>,
      <<"options", VerbData("", FALSE, <<>>, "")>>,
      <<"parameters", VerbData("", FALSE, <<>>, "")>> }

(***************************************************************************)
(* String operations of the classifier, on paths and segments.             *)
(***************************************************************************)
\* x.replace("-", "_")
Underscore(x) ==
    CASE x = "available-ips" -> "available_ips"
      [] x = "available-prefixes" -> "available_prefixes"
      [] x = "get-session-key" -> "get_session_key"
      [] x = "generate-rsa-key-pair" -> "generate_rsa_key_pair"
      [] OTHER -> x

IsNotId(x) == x # "{id}"

\* [x.replace("-", "_") for x in path.replace("/{id}", "").strip("/").split("/")]
PathParts(p) ==
    [i \in DOMAIN SelectSeq(p.segs, IsNotId) |-> Underscore(SelectSeq(p.segs, IsNotId)[i])]

\* "{}.{}".format(verb, ".".join(path_parts))
ActionName(verb, parts) == <<verb>> \o parts

\* "<x>" in path
Contains(p, x) == \E i \in DOMAIN p.segs : p.segs[i] = x

\* path.replace("{id}", "{{ id }}")
ReplaceId(p) ==
    [p EXCEPT !.segs = [i \in DOMAIN p.segs |->
                            IF p.segs[i] = "{id}" THEN "{{ id }}" ELSE p.segs[i]]]

\* the value of `path` after: if "{id}" in path: path = path.replace(...)
Templated(p) == IF Contains(p, "{id}") THEN ReplaceId(p) ELSE p

\* path.endswith("/{{ id }}/")
EndsWithIdSlash(p) == Len(p.segs) > 0 /\ p.segs[Len(p.segs)] = "{{ id }}" /\ p.slash

\* path.endswith("{{ id }}")
EndsWithId(p) == Len(p.segs) > 0 /\ p.segs[Len(p.segs)] = "{{ id }}" /\ ~p.slash

\* name.endswith('_id')
EndsWithUnderscoreId(name) == name \in {"site_id", "vrf_id", "tenant_id"}

\* name.replace("_", " ").capitalize()
Capitalized(name) ==
    CASE name = "asn" -> "Asn"
      [] name = "site_id" -> "Site id"
      [] name = "status" -> "Status"
      [] OTHER -> name

(***************************************************************************)
(* sanitize_parameters and parse_properties                                *)
(***************************************************************************)
SanitizeByName(q) ==
    CASE EndsWithUnderscoreId(q.name) -> [q EXCEPT !.type = "integer"]
      [] q.name = "id__in" -> [q EXCEPT !.type = "array", !.description = <<"Array of IDs">>]
      [] q.name = "tags" ->
            [q EXCEPT !.type = "array", !.description = <<"Array of tag strings">>]
      [] OTHER -> q

SanitizeNumber(q) == IF q.type = "number" THEN [q EXCEPT !.type = "integer"] ELSE q

sanitize_parameters(parameters) ==
    [i \in DOMAIN parameters |-> SanitizeNumber(SanitizeByName(parameters[i]))]

\* the parameter parse_properties builds from one property
PropertyParameter(data, required) ==
    Param(data.name,
          IF data.ref # "" \/ data.choice THEN "integer" ELSE data.type,
          data.name \in required,
          CASE data.ref # "" -> <<Definitions[data.ref].title>>
            [] data.choice -> <<Capitalized(data.name)>>
            [] data.title # "" -> <<data.title>>
            [] OTHER -> <<Capitalized(data.name)>>)

RECURSIVE KeptProperties(_, _)
\* the properties parse_properties does not skip: not readOnly, not ignored
KeptProperties(properties, ignore) ==
    IF properties = <<>> THEN <<>>
    ELSE IF Head(properties).readOnly \/ Head(properties).name \in ignore
         THEN KeptProperties(Tail(properties), ignore)
         ELSE <<Head(properties)>> \o KeptProperties(Tail(properties), ignore)

parse_properties(properties, required, ignore) ==
    sanitize_parameters(
        [i \in DOMAIN KeptProperties(properties, ignore) |->
            PropertyParameter(KeptProperties(properties, ignore)[i], required)])

(***************************************************************************)
(* generate.run: the classification of one (path, verb) entry.             *)
(***************************************************************************)
\* verb.upper()
Upper(verb) ==
    CASE verb = "get" -> "GET"
      [] verb = "post" -> "POST"
      [] verb = "put" -> "PUT"
      [] verb = "patch" -> "PATCH"
      [] verb = "delete" -> "DELETE"
      [] verb = "options" -> "OPTIONS"
      [] OTHER -> verb

\* part.replace("_", " ").title()
Title(part) ==
    CASE part = "sites" -> "Sites"
      [] part = "available_ips" -> "Available Ips"
      [] part = "available_prefixes" -> "Available Prefixes"
      [] part = "get_session_key" -> "Get Session Key"
      [] part = "generate_rsa_key_pair" -> "Generate Rsa Key Pair"
      [] OTHER -> part

\* verb_data['description'].replace("\n", "") or "<VERB> <Last Part>"
Description(verb, parts, vd) ==
    IF vd.description # "" THEN <<vd.description>>
    ELSE <<Upper(verb), " ", Title(parts[Len(parts)])>>

\* the parameters read from the schema of the first parameter, if it has one
SchemaParameters(verb, vd) ==
    IF vd.ref # ""
    THEN parse_properties(Definitions[vd.ref].properties,
                          IF verb = "patch" THEN {} ELSE Definitions[vd.ref].required,
                          {})
    ELSE <<>>

\* the action as built before the rules are tried; p is `path` after its rewrite
BaseAction(p, parts, verb, vd) ==
    [description |-> Description(verb, parts, vd),
     parameters |-> SchemaParameters(verb, vd),
     endpoint_uri |-> p,
     verb |-> verb,
     get_detail_route_eligible |-> TRUE]

IdParameter(description) == Param("id", "integer", TRUE, description)

\* the parameter the deferred detail GETs add to their list action
OptionalIdParameter ==
    Param("id", "integer", FALSE,
          <<"If provided, will convert to using the detail route. ",
            "I.e., <endpoint_uri>/<id>/, ",
            "meaning a max of one entity will be returned and all ",
            "other entity query parameters will be ignored.">>)

Accept(action) == [kind |-> "action", action |-> action]

\* the outcome of the rules for one entry: an action to store under its name,
\* a deferred detail GET, or no rule ("Unable to process endpoint ...")
Classify(p, parts, verb, vd) ==
    LET name == ActionName(verb, parts)
        action == BaseAction(p, parts, verb, vd)
    IN
    CASE verb = "post" /\ name = <<"post", "ipam", "prefixes", "available_ips">> ->
            Accept([action EXCEPT
                !.parameters =
                    Append(parse_properties(Definitions["IPAddress"].properties,
                                            Definitions["IPAddress"].required, {"address"}),
                           IdParameter(<<"ID of the Prefix.">>)),
                !.get_detail_route_eligible = FALSE,
                !.description = <<"Create the next available IP Address in a given Prefix.">>])
      [] verb = "post" /\ name = <<"post", "ipam", "prefixes", "available_prefixes">> ->
            Accept([action EXCEPT
                !.parameters =
                    parse_properties(Definitions["Prefix"].properties,
                                     Definitions["Prefix"].required, {"prefix"})
                    \o << IdParameter(<<"ID of the Prefix.">>),
                          Param("prefix_length", "integer", TRUE,
                                <<"Prefix CIDR length to create.">>) >>,
                !.get_detail_route_eligible = FALSE,
                !.description = <<"Create the next available Prefix in a given Prefix.">>])
      [] verb = "get" /\ name = <<"get", "secrets", "generate_rsa_key_pair">> ->
            Accept([action EXCEPT
                !.description = <<"This endpoint can be used to generate a new RSA key pair.">>])
      [] verb = "post" /\ name = <<"post", "secrets", "get_session_key">> ->
            Accept([action EXCEPT
                !.parameters = Append(action.parameters,
                                      Param("private_key", "string", TRUE,
                                            <<"User's private key.">>)),
                !.get_detail_route_eligible = FALSE,
                !.description = <<"Retrieve a temporary session key to use for encrypting ",
                                  "and decrypting secrets via the API.">>])
      [] verb = "get" /\ vd.is_list ->
            Accept([action EXCEPT !.parameters = sanitize_parameters(vd.parameters)])
      [] verb = "get" /\ EndsWithIdSlash(p) ->
            [kind |-> "deferred", action |-> action]
      [] verb = "get" /\ Contains(p, "{{ id }}") /\ ~EndsWithId(p) ->
            Accept([action EXCEPT
                !.parameters = Append(action.parameters,
                                      IdParameter(<<"ID of the object.">>)),
                !.get_detail_route_eligible = FALSE])
      [] verb \in {"delete", "put", "patch"} ->
            Accept([action EXCEPT
                !.parameters = Append(action.parameters,
                                      IdParameter(<<"ID of the object to ", verb, ".">>))])
      [] verb = "post" /\ ~Contains(p, "{{ id }}") ->
            Accept(action)
      [] OTHER ->
            [kind |-> "skipped", action |-> action]

\* print("Unable to process endpoint {}, no defined logic".format(action_name))
NoLogicWarning(name) == <<"Unable to process endpoint, no defined logic">> \o name

\* print("Unable to find list action for deferred GET endpoint {}".format(detailed_get))
NoListWarning(name) == <<"Unable to find list action for deferred GET endpoint">> \o name

\* actions[name] = action
Store(acts, name, action) == (name :> action) @@ acts

\* a mapping that is given the action whether or not a rule matched
AfterEntryAlwaysStored(acts, name, outcome) == Store(acts, name, outcome.action)

\* the mapping after the rules ran on one entry: only a rule that matched
\* stores the action
AfterEntry(acts, name, outcome) ==
    IF outcome.kind = "action" THEN Store(acts, name, outcome.action) ELSE acts

RECURSIVE ProcessDeferred(_, _)
\* the loop over deferred_detail_gets: the actions after it
ProcessDeferred(acts, deferred) ==
    IF deferred = <<>> THEN acts
    ELSE ProcessDeferred(
            IF Head(deferred) \in DOMAIN acts
            THEN [acts EXCEPT ![Head(deferred)].parameters = Append(@, OptionalIdParameter)]
            ELSE acts,
            Tail(deferred))

RECURSIVE DeferredWarnings(_, _)
\* the warnings the loop over deferred_detail_gets prints
DeferredWarnings(acts, deferred) ==
    IF deferred = <<>> THEN <<>>
    ELSE (IF Head(deferred) \in DOMAIN acts THEN <<>> ELSE <<NoListWarning(Head(deferred))>>)
         \o DeferredWarnings(acts, Tail(deferred))

(***************************************************************************)
(* generate.run: the actions directory.                                    *)
(***************************************************************************)
File(name, ext) == [name |-> name, ext |-> ext]

\* "{}.yaml".format(name)
YamlFile(name) == File(name, "yaml")

\* item.endswith('.yaml')
IsYaml(f) == f.ext = "yaml"

\* the directory before a run: the definition files of an earlier run (one that
\* this run may write again, one that it will not) and the runner script
InitialDir ==
    { YamlFile(<<"get", "dcim", "sites">>), YamlFile(<<"get", "dcim", "regions">>),
      File(<<"run">>, "py") }

\* a deletion that looks for the wrong suffix
AfterDeleteOfYml(dir) == { f \in dir : f.ext # "yml" }

\* the files left by the loop that deletes the current ".yaml" files
AfterDelete(dir) == { f \in dir : ~IsYaml(f) }

\* the files the render loop opens for writing, one for each item of actions
Rendered(acts) == { YamlFile(name) : name \in DOMAIN acts }

NoActions == [n \in {} |-> 0]

(***************************************************************************)
(* The generator as a state machine.                                       *)
(***************************************************************************)
GInit ==
    /\ gpc = "classify"
    /\ doc = {}
    /\ cur = NoPath
    /\ path = NoPath
    /\ path_parts = <<>>
    /\ actions = NoActions
    /\ deferred_detail_gets = <<>>
    /\ printed = <<>>
    /\ files = InitialDir
    /\ written = {}
    /\ gret = -1

Entry(p, verb, vd, outcome) == [path |-> p, verb |-> verb, data |-> vd, outcome |-> outcome]

\* one iteration of the inner loop: the entry (verb, vd) of the path key k,
\* with `path` holding p when the iteration starts
ClassifyEntry(k, p, verb, vd) ==
    LET parts == PathParts(k)
        name == ActionName(verb, parts)
        outcome == Classify(Templated(p), parts, verb, vd)
    IN
    /\ cur' = k
    /\ path_parts' = parts
    /\ IF verb = "parameters"
       THEN /\ doc' = doc \cup {Entry(k, verb, vd, "ignored")}
            /\ path' = p
            /\ UNCHANGED <<actions, deferred_detail_gets, printed>>
       ELSE /\ doc' = doc \cup {Entry(k, verb, vd, outcome.kind)}
            /\ path' = Templated(p)
            /\ actions' = AfterEntry(actions, name, outcome)
            /\ deferred_detail_gets' = IF outcome.kind = "deferred"
                                       THEN Append(deferred_detail_gets, name)
                                       ELSE deferred_detail_gets
            /\ printed' = IF outcome.kind = "skipped"
                          THEN Append(printed, NoLogicWarning(name)) ELSE printed
    /\ UNCHANGED <<gpc, files, written, gret>>
    /\ UNCHANGED hvars

\* the inner loop goes on to another verb of the current path
NextVerb ==
    /\ gpc = "classify"
    /\ cur # NoPath
    /\ Cardinality(doc) < MaxPairs
    /\ \E e \in VerbEntries(cur) :
        /\ \A d \in doc : ~(d.path = cur /\ d.verb = e[1])
        /\ ClassifyEntry(cur, path, e[1], e[2])

\* the outer loop goes on to another path, and the inner loop to its first verb
NextPath ==
    /\ gpc = "classify"
    /\ Cardinality(doc) < MaxPairs
    /\ \E k \in PathSet :
        /\ \A d \in doc : d.path # k
        /\ \E e \in VerbEntries(k) : ClassifyEntry(k, k, e[1], e[2])

\* both loops are over: the deferred detail GETs are processed, then all
\* current ".yaml" action files are deleted
Deferred ==
    /\ gpc = "classify"
    /\ gpc' = "render"
    /\ actions' = ProcessDeferred(actions, deferred_detail_gets)
    /\ printed' = printed \o DeferredWarnings(actions, deferred_detail_gets)
    /\ files' = AfterDelete(files)
    /\ UNCHANGED <<doc, cur, path, path_parts, deferred_detail_gets, written, gret>>
    /\ UNCHANGED hvars

\* render the new actions, write them to file and return len(actions)
Render ==
    /\ gpc = "render"
    /\ gpc' = "done"
    /\ written' = Rendered(actions)
    /\ files' = files \cup Rendered(actions)
    /\ gret' = Cardinality(DOMAIN actions)
    /\ UNCHANGED <<doc, cur, path, path_parts, actions, deferred_detail_gets, printed>>
    /\ UNCHANGED hvars

GNext == NextVerb \/ NextPath \/ Deferred \/ Render

HInit ==
    /\ config = [use_https |-> FALSE, hostname |-> "netbox.example",
                 api_token |-> "t0k3n", ssl_verify |-> TRUE]
    /\ hpc = "idle"
    /\ inv = NoInvocation
    /\ resp = NoResponse
    /\ made = <<>>
    /\ sent = <<>>
    /\ kv_calls = <<>>
    /\ kvstore = [k \in KeyNames |-> None]
    /\ ret = NoReturn

\* one invocation of NetboxHTTPAction.run, with the answer of NetBox to the
\* request it issues
Run(a, r) ==
    /\ hpc = "idle"
    /\ hpc' = "returned"
    /\ inv' = a
    /\ made' = <<MakeRequestArgs(a)>>
    /\ sent' = RequestsIssued(config, MakeRequestArgs(a).endpoint_uri,
                              MakeRequestArgs(a).http_action, MakeRequestArgs(a).kwargs)
    /\ IF MakeRequestEnd(MakeRequestArgs(a).http_action, MakeRequestArgs(a).kwargs) = "returns"
       THEN /\ resp' = r
            /\ ret' = RunReturn(a, r)
            /\ IF StoresUnder(a, r) # None
               THEN /\ kv_calls' = <<KeyValuePair(a, r)>>
                    /\ kvstore' = [kvstore EXCEPT ![StoresUnder(a, r)[1]] =
                                        Some(KeyValuePair(a, r).value)]
               ELSE /\ kv_calls' = <<>>
                    /\ kvstore' = kvstore
       ELSE /\ resp' = NoResponse
            /\ ret' = Raise(MakeRequestEnd(MakeRequestArgs(a).http_action,
                                           MakeRequestArgs(a).kwargs))
            /\ kv_calls' = <<>>
            /\ kvstore' = kvstore
    /\ UNCHANGED config
    /\ UNCHANGED gvars

\* the configurations of the pack
Configs ==
    [use_https : BOOLEAN, hostname : {"netbox.example"}, api_token : {"t0k3n"},
     ssl_verify : {TRUE}]

\* the platform builds a fresh action object, NetboxBaseAction.__init__(config),
\* for the next invocation
NextInvocation ==
    /\ hpc = "returned"
    /\ hpc' = "idle"
    /\ config' \in Configs
    /\ inv' = NoInvocation
    /\ resp' = NoResponse
    /\ made' = <<>>
    /\ sent' = <<>>
    /\ kv_calls' = <<>>
    /\ ret' = NoReturn
    /\ UNCHANGED kvstore
    /\ UNCHANGED gvars

HNext ==
    \/ hpc = "idle" /\ \E a \in Invocations, r \in Responses : Run(a, r)
    \/ NextInvocation

vars == <<hvars, gvars>>

Init == HInit /\ GInit

SpecHTTP == Init /\ [][HNext]_vars

SpecGen == Init /\ [][GNext]_vars

(***************************************************************************)
(* Properties of the HTTP action wrapper (SpecHTTP).                       *)
(***************************************************************************)
\* an id was supplied: the keyword argument id holds an integer
IdSupplied(kwargs) == "id" \in DOMAIN kwargs /\ kwargs["id"] # None

\* save_in_key_store_key_name is there and not empty
KeyNamed(kwargs) ==
    /\ "save_in_key_store_key_name" \in DOMAIN kwargs
    /\ kwargs["save_in_key_store_key_name"] # None
    /\ kwargs["save_in_key_store_key_name"][1] # ""

\* C1: whenever run was called with one of the verbs get, post, put, patch,
\* delete and NetBox answered with a failure status, run returns status False
\* with the parsed response body as 'raw', and exactly one request was issued
\* (no retry).
C1_FailureIsPassedThrough ==
    (hpc = "returned" /\ inv.http_verb \in Verbs /\ sent # <<>> /\ resp.ok = FALSE)
        => /\ ret = Return(FALSE, PyJson(JsonLoads(resp.body)))
           /\ Len(sent) = 1

C1_Witness ==
    /\ hpc = "returned" /\ inv.http_verb = "get" /\ resp.ok = FALSE
    /\ IsTrue(inv.kwargs, "save_in_key_store")
    /\ ret = Return(FALSE, PyJson("dict(detail='Not found.')"))

\* C2: whenever run was called with one of the verbs get, post, put, patch,
\* delete, the response is successful and save_in_key_store was not requested,
\* run returns (True, {'raw': <the response body>}).
C2_SuccessIsPassedThrough ==
    (hpc = "returned" /\ inv.http_verb \in Verbs /\ sent # <<>> /\ resp.ok = TRUE
        /\ ~IsTrue(inv.kwargs, "save_in_key_store"))
        => ret = Return(TRUE, PyJson(JsonLoads(resp.body)))

C7_DetailRouteConversion ==
    hpc = "returned" =>
        IF inv.http_verb = "get" /\ inv.get_detail_route_eligible /\ IdSupplied(inv.kwargs)
        THEN /\ made[1].endpoint_uri
                    = inv.endpoint_uri \o <<Str(inv.kwargs["id"][1]), "/">>
             /\ "id" \notin DOMAIN made[1].kwargs
             /\ Len(sent) = 1
             /\ sent[1].url = Url(config, inv.endpoint_uri
                                            \o <<Str(inv.kwargs["id"][1]), "/">>)
             /\ "id" \notin DOMAIN sent[1].args
        ELSE /\ made[1].endpoint_uri = inv.endpoint_uri
             /\ made[1].kwargs = inv.kwargs
             /\ \A i \in DOMAIN sent : sent[i].url = Url(config, inv.endpoint_uri)

\* the key store after a step, given the key store before it
C9_Step ==
    hpc' = "returned" =>
        LET saving == resp'.ok = TRUE /\ inv'.http_verb = "get" /\ sent' # <<>>
                        /\ IsTrue(inv'.kwargs, "save_in_key_store")
            named == KeyNamed(inv'.kwargs)
            key == inv'.kwargs["save_in_key_store_key_name"][1]
            value == JsonDumps(JsonLoads(resp'.body))
        IN
        /\ (saving /\ named) =>
                /\ Len(kv_calls') = 1
                /\ kv_calls'[1].name = key
                /\ kv_calls'[1].value = value
                /\ kvstore' = [kvstore EXCEPT ![key] = Some(value)]
                /\ ret' = Return(TRUE, PyStr(StoredMessage(key)))
        /\ (saving /\ ~named) =>
                /\ kv_calls' = <<>>
                /\ kvstore' = kvstore
                /\ ret' = Return(FALSE, PyStr(MustMessage))
        /\ ~saving =>
                /\ kv_calls' = <<>>
                /\ kvstore' = kvstore

NameOf(d) == ActionName(d.verb, PathParts(d.path))

\* the entries the classifier turned into an action
Accepted == { d \in doc : d.outcome = "action" }

YamlFiles(dir) == { f \in dir : IsYaml(f) }

\* C4: every .yaml file already in the actions directory is deleted before any
\* definition file is written (nothing is written while the document is
\* classified, and no .yaml file is left when rendering starts); when the run
\* is over the .yaml files are exactly <name>.yaml for each action of the
\* mapping, no file of the earlier run is there unless this run wrote it, the
\* other files are untouched, and the count returned is the number of files
\* written.
C4_RegeneratedFromScratch ==
    /\ gpc = "classify" => (files = InitialDir /\ written = {})
    /\ gpc = "render" => (YamlFiles(files) = {} /\ written = {})
    /\ gpc = "done" =>
        /\ YamlFiles(files) = { YamlFile(n) : n \in DOMAIN actions }
        /\ \A f \in InitialDir : IsYaml(f) /\ f \in files => f \in written
        /\ files \ YamlFiles(files) = InitialDir \ YamlFiles(InitialDir)
        /\ gret = Cardinality(written)
        /\ gret = Cardinality(DOMAIN actions)

C4_Witness ==
    /\ gpc = "done" /\ gret = 2
    /\ YamlFile(<<"get", "dcim", "sites">>) \in files
    /\ YamlFile(<<"post", "dcim", "sites">>) \in files
    /\ YamlFile(<<"get", "dcim", "regions">>) \notin files

\* C5: no two distinct (path, verb) entries that the classifier turns into an
\* action are given the same action name.
C5_ActionNamesAreUnique ==
    \A d1 \in Accepted, d2 \in Accepted : d1 # d2 => NameOf(d1) # NameOf(d2)

SpecialNames ==
    { <<"post", "ipam", "prefixes", "available_ips">>,
      <<"post", "ipam", "prefixes", "available_prefixes">>,
      <<"get", "secrets", "generate_rsa_key_pair">>,
      <<"post", "secrets", "get_session_key">> }

\* an entry that matches none of the rules: a verb other than get, post, put,
\* patch, delete; a POST on a path with {id} that is not a special case; a GET
\* that is no list operation, no special case, and whose path has no {id} or
\* ends in {id} without a slash
Unmatched(d) ==
    /\ d.verb # "parameters"
    /\ NameOf(d) \notin SpecialNames
    /\ \/ d.verb \notin Verbs
       \/ d.verb = "post" /\ Contains(d.path, "{id}")
       \/ /\ d.verb = "get" /\ ~d.data.is_list
          /\ (~Contains(d.path, "{id}") \/ (EndsInParameter(d.path) /\ ~d.path.slash))

\* the step that classifies an unmatched entry emits no action, prints the
\* warning and leaves the loop running
C6_Step ==
    \A d \in doc' \ doc :
        Unmatched(d) =>
            /\ actions' = actions
            /\ deferred_detail_gets' = deferred_detail_gets
            /\ printed' = Append(printed, NoLogicWarning(NameOf(d)))
            /\ gpc' = "classify"

\* when the run is over, every entry that matches a rule was classified and the
\* definition file of every accepted entry is in the directory
C6_Final ==
    gpc = "done" =>
        \A d \in doc :
            /\ (~Unmatched(d) /\ d.verb # "parameters") => d.outcome \in {"action", "deferred"}
            /\ d.outcome = "action" => YamlFile(NameOf(d)) \in files

\* C6: an entry that matches no rule yields no action and a warning, and the
\* run goes on: every other entry is still classified and its definition file
\* is still written.
C6_UnmatchedIsSkipped == [][C6_Step]_vars /\ [](C6_Final)

C6_Witness ==
    /\ gpc = "done"
    /\ \E d \in doc : Unmatched(d) /\ d.verb = "post"
    /\ \E d \in doc : d.outcome = "action" /\ YamlFile(NameOf(d)) \in files
    /\ Len(printed) = 1

\* the parameter a deferred detail GET adds is among the parameters
HasOptionalId(action) ==
    \E i \in DOMAIN action.parameters : action.parameters[i] = OptionalIdParameter

\* a GET entry on a path ending in /{id}/
IsDetailGet(d) == d.verb = "get" /\ EndsInParameter(d.path) /\ d.path.slash

\* an accepted GET entry of a list operation (the list rule stored it)
IsListGet(d) ==
    /\ d.outcome = "action" /\ d.verb = "get" /\ d.data.is_list
    /\ NameOf(d) \notin SpecialNames

\* C8: after the deferred detail GETs were processed, whatever the order of
\* the paths: a list GET action has the optional integer parameter id if and
\* only if the document has the GET detail endpoint of the same action name;
\* a detail GET with no list action of that name produces no action and only
\* a warning (no action is changed for it).
C8_DeferredDetailGets ==
    gpc \in {"render", "done"} =>
        /\ \A d \in doc :
            (IsListGet(d) /\ actions[NameOf(d)].endpoint_uri = Templated(d.path)) =>
                (HasOptionalId(actions[NameOf(d)])
                    <=> \E e \in doc : IsDetailGet(e) /\ NameOf(e) = NameOf(d))
        /\ \A e \in doc :
            (IsDetailGet(e) /\ ~\E d \in doc : IsListGet(d) /\ NameOf(d) = NameOf(e)) =>
                /\ e.outcome # "action"
                /\ \E i \in DOMAIN printed : printed[i] = NoListWarning(NameOf(e))
                /\ NameOf(e) \in DOMAIN actions => ~HasOptionalId(actions[NameOf(e)])

\* C10: every action the generator emits whose endpoint URI template contains
\* the id placeholder declares a parameter named id that is required and of
\* type integer.
C10_IdPlaceholderHasRequiredId ==
    gpc = "done" =>
        \A n \in DOMAIN actions :
            Contains(actions[n].endpoint_uri, "{{ id }}") =>
                \E i \in DOMAIN actions[n].parameters :
                    /\ actions[n].parameters[i].name = "id"
                    /\ actions[n].parameters[i].required
                    /\ actions[n].parameters[i].type = "integer"

====
